---- MODULE Spec2Model ----
(***************************************************************************)
(* Model of build.rs of assimp-sys: the build script that resolves the     *)
(* native assimp library (pkg-config probe, else a cmake build of the      *)
(* bundled sources), emits cargo directives, and runs bindgen.              *)
(*                                                                         *)
(* Text that the code only compares for equality is a TLA+ string; text    *)
(* that the code searches (contains, ends_with) is a tuple of characters;  *)
(* a path is the tuple of its components (a leading "" is the root).       *)
(* An Option / Result is a tuple of length 0 (None, Err) or 1 (Some, Ok).  *)
(***************************************************************************)
EXTENDS Integers, Sequences, FiniteSets, TLC

VARIABLES
    env,            \* the process environment the build tool provides
    tree,           \* the entries below ./assimp, in walkdir's order
    pc,             \* position of the single thread in main's call chain
    out_path,       \* main's out_path (Option)
    assimp,         \* result of the exact-version probe (Option of result)
    minizip,        \* result of the unversioned probe (Option of result)
    include_paths,  \* discover_library's include_paths (Option of Vec<String>)
    walk_i,         \* entries the WalkDir iterator has yielded so far
    log,            \* the run's observable effects, in order: lines printed
                    \* to the directive channel and calls of collaborators
    clang_args,     \* arguments given to the bindgen builder
    generated,      \* result of bindings.generate() (Option of parsed or not)
    bindings_file   \* path of the written bindings file (Option)

vars == <<env, tree, pc, out_path, assimp, minizip, include_paths, walk_i,
          log, clang_args, generated, bindings_file>>

-----------------------------------------------------------------------------
(* Bounds of the model *)

\* longest list of directories a package-config probe reports
MaxPaths == 2
\* most entries below the bundled source tree
MaxEntries == 5

-----------------------------------------------------------------------------
(* Option, strings, paths *)

None == <<>>
Some(v) == <<v>>
IsSome(o) == Len(o) = 1
Get(o) == o[1]

Min(a, b) == IF a < b THEN a ELSE b
Take(s, n) == SubSeq(s, 1, Min(n, Len(s)))

\* a tuple of characters as one string
RECURSIVE Str(_)
Str(cs) == IF cs = <<>> THEN "" ELSE Head(cs) \o Str(Tail(cs))

\* str::contains
Contains(s, pat) ==
    \E i \in 0..(Len(s) - Len(pat)) : SubSeq(s, i + 1, i + Len(pat)) = pat

\* str::ends_with
EndsWith(s, suf) ==
    /\ Len(s) >= Len(suf)
    /\ SubSeq(s, Len(s) - Len(suf) + 1, Len(s)) = suf

\* a path component whose bytes are not valid UTF-8
NonUtf8 == "\\xFF"

IsUtf8(p) == \A i \in 1..Len(p) : p[i] # NonUtf8

\* the text of a path: its components joined by "/"
RECURSIVE PathText(_)
PathText(p) ==
    IF p = <<>> THEN ""
    ELSE IF Len(p) = 1 THEN Head(p)
    ELSE Head(p) \o "/" \o PathText(Tail(p))

\* Path::to_str, OsString::into_string: None / Err when not UTF-8
ToStr(p) == IF IsUtf8(p) THEN Some(PathText(p)) ELSE None

\* PathBuf::join with a relative component
Join(p, c) == Append(p, c)

-----------------------------------------------------------------------------
(* The observable effects *)

\* println! at source line `site`
Println(site, text) == [ev |-> "print", site |-> site, text |-> text]
\* a call of an external collaborator at source line `site`
Call(what, site, arg) == [ev |-> what, site |-> site, text |-> arg]

Printed(l) == SelectSeq(l, LAMBDA e : e.ev = "print")
Calls(l, what) == SelectSeq(l, LAMBDA e : e.ev = what)
AtSite(l, site) == SelectSeq(l, LAMBDA e : e.ev = "print" /\ e.site = site)

RECURSIVE Texts(_)
Texts(l) == IF l = <<>> THEN <<>> ELSE <<Head(l).text>> \o Texts(Tail(l))

Range(s) == {s[i] : i \in 1..Len(s)}

-----------------------------------------------------------------------------
(* The inputs a run can meet *)

GNU == <<"g", "n", "u">>
APPLE == <<"a", "p", "p", "l", "e">>

LinuxGnu == <<"x", "8", "6", "_", "6", "4", "-", "u", "n", "k", "n", "o", "w", "n", "-", "l", "i", "n", "u", "x", "-", "g", "n", "u">>
AppleDarwin == <<"a", "a", "r", "c", "h", "6", "4", "-", "a", "p", "p", "l", "e", "-", "d", "a", "r", "w", "i", "n">>
WindowsMsvc == <<"x", "8", "6", "_", "6", "4", "-", "p", "c", "-", "w", "i", "n", "d", "o", "w", "s", "-", "m", "s", "v", "c">>
\* a custom target whose name holds both words
AppleGnu == <<"x", "8", "6", "_", "6", "4", "-", "a", "p", "p", "l", "e", "-", "g", "n", "u">>

Targets == {LinuxGnu, AppleDarwin, WindowsMsvc, AppleGnu}
OptLevels == {"0", "1", "2", "3", "s", "z"}
Profiles == {"debug", "release"}
OutDirs == {<<"", "target", "out">>, <<"", "target", NonUtf8>>}
ManifestDirs == {<<"", "crate">>}

Opt(S) == {None} \cup {Some(v) : v \in S}

Envs ==
    [OUT_DIR : Opt(OutDirs), TARGET : Opt(Targets),
     CARGO_MANIFEST_DIR : Opt(ManifestDirs),
     OPT_LEVEL : Opt(OptLevels), PROFILE : Opt(Profiles)]

\* what package-config can report, longest lists first cut to MaxPaths
SysLinkDirs == << <<"", "usr", "lib">>, <<"", "opt", NonUtf8, "lib">>,
                  <<"", "usr", "local", "lib">> >>
SysIncDirs == << <<"", "usr", "include">>, <<"", "usr", "include", "assimp">>,
                 <<"", "opt", NonUtf8, "include">>, <<"", "opt", "include">> >>
SysLibs == <<"assimp", "stdc++", "z", "m">>

Library(nl, ni) ==
    [link_paths |-> Take(SysLinkDirs, nl), libs |-> Take(SysLibs, nl + 1),
     include_paths |-> Take(SysIncDirs, ni)]

\* Result<Library, Error> of the probe of assimp
AssimpResults ==
    {None} \cup {Some(Library(nl, ni)) : nl \in 0..MaxPaths, ni \in 0..MaxPaths}

\* Result<Library, Error> of the probe of minizip
MinizipResults ==
    {None} \cup
    {Some([link_paths |-> Take(SysLinkDirs, nl), libs |-> <<"minizip", "z">>,
           include_paths |-> <<<<"", "usr", "include", "minizip">>>>]) :
        nl \in 1..MaxPaths}

File(dir, name) == [dir |-> dir, name |-> name, is_dir |-> FALSE]
Dir(dir, name) == [dir |-> dir, name |-> name, is_dir |-> TRUE]

\* entries below ./assimp in the order WalkDir yields them (a directory
\* before its contents), so that every prefix is a tree
Entries ==
    << Dir(<<>>, <<"c", "o", "d", "e", ".", "h">>),
       File(<<"code.h">>, <<"I", "m", "p", "o", "r", "t", "e", "r", ".", "c", "p", "p">>),
       File(<<"code.h">>, <<"c", "o", "n", "f", "i", "g", ".", "h", ".", "i", "n">>),
       File(<<>>, <<"t", "y", "p", "e", "s", ".", "i", "n", "l">>),
       File(<<>>, <<"d", "e", "f", "s", ".", "h">>),
       File(<<>>, <<"s", "c", "e", "n", "e", ".", "h", "p", "p">>),
       Dir(<<>>, <<"p", "o", "r", "t">>) >>

Trees == {Take(Entries, n) : n \in 0..MaxEntries}

-----------------------------------------------------------------------------
(* The pure parts of the code *)

\* Result::unwrap_or_default on a String
UnwrapOrDefault(o) == IF IsSome(o) THEN Get(o) ELSE ""

\* Display of a path: lossy where the path is not UTF-8
RECURSIVE Display(_)
Display(p) ==
    IF p = <<>> THEN ""
    ELSE LET c == IF Head(p) = NonUtf8 THEN "\\uFFFD" ELSE Head(p)
         IN IF Len(p) = 1 THEN c ELSE c \o "/" \o Display(Tail(p))

\* the match with the profile arm moved to the top
debug_postfix_profile_first(opt_level, profile) ==
    IF profile = "debug" THEN "d"
    ELSE IF opt_level \in {"1", "2", "3", "s", "z"} THEN ""
    ELSE IF opt_level = "0" THEN "d"
    ELSE ""

\* the match of compile_bundled on (OPT_LEVEL, PROFILE)
debug_postfix(opt_level, profile) ==
    IF opt_level \in {"1", "2", "3", "s", "z"} THEN ""
    ELSE IF opt_level = "0" THEN "d"
    ELSE IF profile = "debug" THEN "d"
    ELSE ""

\* the filter with contains in place of ends_with
IsTriggerContains(filename) ==
    \/ Contains(filename, <<".", "h">>)
    \/ Contains(filename, <<".", "c", "p", "p">>)
    \/ Contains(filename, <<".", "i", "n", "l">>)

\* the filter of the rebuild-trigger loop on an entry's file name
IsTrigger(filename) ==
    \/ EndsWith(filename, <<".", "h">>)
    \/ EndsWith(filename, <<".", "c", "p", "p">>)
    \/ EndsWith(filename, <<".", "i", "n", "l">>)

\* DirEntry::path of an entry met by WalkDir::new("assimp")
EntryPath(e) == <<"assimp">> \o e.dir \o <<Str(e.name)>>

\* one println! per path of a list, stopped by the first to_str().unwrap()
\* that panics
RECURSIVE EmitPaths(_, _, _)
EmitPaths(paths, site, prefix) ==
    IF paths = <<>> THEN [events |-> <<>>, ok |-> TRUE]
    ELSE IF ~IsSome(ToStr(Head(paths))) THEN [events |-> <<>>, ok |-> FALSE]
    ELSE LET rest == EmitPaths(Tail(paths), site, prefix)
         IN [events |-> <<Println(site, prefix \o Get(ToStr(Head(paths))))>> \o rest.events,
             ok |-> rest.ok]

\* one println! per library name
RECURSIVE EmitLibs(_, _)
EmitLibs(libs, site) ==
    IF libs = <<>> THEN <<>>
    ELSE <<Println(site, "cargo:rustc-link-lib=" \o Head(libs))>> \o EmitLibs(Tail(libs), site)

\* include_paths.into_iter().map(into_string().unwrap()).collect():
\* None when an unwrap panics
RECURSIVE IntoStrings(_)
IntoStrings(paths) ==
    IF paths = <<>> THEN Some(<<>>)
    ELSE LET rest == IntoStrings(Tail(paths))
         IN IF IsSome(ToStr(Head(paths))) /\ IsSome(rest)
            THEN Some(<<Get(ToStr(Head(paths)))>> \o Get(rest))
            ELSE None

\* the vec! with the output directory itself in place of its include/
BundledIncludesNoJoin(manifest_dir, out) ==
    IntoStrings(<<Join(Join(manifest_dir, "assimp"), "include"), out>>)

\* the vec! compile_bundled returns: None when an unwrap panics
BundledIncludes(manifest_dir, out) ==
    IntoStrings(<<Join(Join(manifest_dir, "assimp"), "include"), Join(out, "include")>>)

\* the two tests on the target triple in the other order
StdLibDirectiveAppleFirst(target) ==
    IF Contains(target, APPLE) THEN <<Println(103, "cargo:rustc-link-lib=c++")>>
    ELSE IF Contains(target, GNU) THEN <<Println(101, "cargo:rustc-link-lib=stdc++")>>
    ELSE <<>>

\* the directive for the C++ runtime, by the words in the target triple
StdLibDirective(target) ==
    IF Contains(target, GNU) THEN <<Println(101, "cargo:rustc-link-lib=stdc++")>>
    ELSE IF Contains(target, APPLE) THEN <<Println(103, "cargo:rustc-link-lib=c++")>>
    ELSE <<>>

\* bindings.clang_args(&["-I", &path]) for every include path
RECURSIVE ClangArgs(_)
ClangArgs(paths) ==
    IF paths = <<>> THEN <<>> ELSE <<"-I", Head(paths)>> \o ClangArgs(Tail(paths))

-----------------------------------------------------------------------------
(* The state after construction: nothing has run yet *)

Init ==
    /\ env \in Envs
    /\ tree \in Trees
    /\ pc = "main"
    /\ out_path = None
    /\ assimp = None
    /\ minizip = None
    /\ include_paths = None
    /\ walk_i = 0
    /\ log = <<>>
    /\ clang_args = <<>>
    /\ generated = None
    /\ bindings_file = None

\* a panic: the process ends, whatever was printed stays printed
Abort == pc' = "aborted"

-----------------------------------------------------------------------------
(* main, first line *)

\* env::var_os("OUT_DIR").unwrap()
ReadOutDir ==
    /\ pc = "main"
    /\ IF IsSome(env.OUT_DIR)
       THEN out_path' = env.OUT_DIR /\ pc' = "probe_assimp"
       ELSE out_path' = out_path /\ Abort
    /\ UNCHANGED <<env, tree, assimp, minizip, include_paths, walk_i, log,
                   clang_args, generated, bindings_file>>

-----------------------------------------------------------------------------
(* discover_library: the primary library *)

\* a build that compiles the bundled sources whatever the probe found
AfterProbeAlwaysBuild(result) == "cmake"

\* a build without the fallback: a failed probe goes on to the next library
AfterProbeNoFallback(result) ==
    IF IsSome(result) THEN "assimp_found" ELSE "probe_minizip"

\* the branch of `if let Ok(assimp) = ... else`
AfterProbe(result) == IF IsSome(result) THEN "assimp_found" ELSE "cmake"

\* pkg_config::Config::new().exactly_version("5.0").probe("assimp")
ProbeAssimp ==
    /\ pc = "probe_assimp"
    /\ \E result \in AssimpResults :
        /\ assimp' = Some(result)
        /\ pc' = AfterProbe(result)
    /\ log' = Append(log, Call("pkg_config", 72, "assimp=5.0"))
    /\ UNCHANGED <<env, tree, out_path, minizip, include_paths, walk_i,
                   clang_args, generated, bindings_file>>

\* the directives for a probed library: every link path, then every name
LibraryDirectives(lib, path_site, lib_site) ==
    LET paths == EmitPaths(lib.link_paths, path_site, "cargo:rustc-link-path=")
    IN [events |-> IF paths.ok THEN paths.events \o EmitLibs(lib.libs, lib_site)
                   ELSE paths.events,
        ok |-> paths.ok]

\* the two loops over assimp.link_paths and assimp.libs
EmitAssimp ==
    /\ pc = "assimp_found"
    /\ LET d == LibraryDirectives(Get(Get(assimp)), 74, 77)
       IN /\ log' = log \o d.events
          /\ IF d.ok THEN pc' = "assimp_includes" ELSE Abort
    /\ UNCHANGED <<env, tree, out_path, assimp, minizip, include_paths, walk_i,
                   clang_args, generated, bindings_file>>

RECURSIVE Reverse(_)
Reverse(q) == IF q = <<>> THEN <<>> ELSE Append(Reverse(Tail(q)), Head(q))

\* the include paths collected in the opposite order
SystemIncludesReversed(lib) == IntoStrings(Reverse(lib.include_paths))

\* the include paths of the system branch
SystemIncludes(lib) == IntoStrings(lib.include_paths)

\* assimp.include_paths ... collect()
CollectIncludes ==
    /\ pc = "assimp_includes"
    /\ LET inc == SystemIncludes(Get(Get(assimp)))
       IN IF IsSome(inc)
          THEN include_paths' = inc /\ pc' = "probe_minizip"
          ELSE include_paths' = include_paths /\ Abort
    /\ UNCHANGED <<env, tree, out_path, assimp, minizip, walk_i, log,
                   clang_args, generated, bindings_file>>

-----------------------------------------------------------------------------
(* compile_bundled *)

\* Config::new("assimp") ... .build(): builds into OUT_DIR or panics
CmakeBuild ==
    /\ pc = "cmake"
    /\ log' = Append(log, Call("cmake", 33, "assimp"))
    /\ \E built \in BOOLEAN : IF built THEN pc' = "link_search" ELSE Abort
    /\ UNCHANGED <<env, tree, out_path, assimp, minizip, include_paths, walk_i,
                   clang_args, generated, bindings_file>>

\* dst.join("lib") and its link-search directive
LinkSearch ==
    /\ pc = "link_search"
    /\ log' = Append(log, Println(36, "cargo:rustc-link-search=native="
                                      \o Display(Join(Get(out_path), "lib"))))
    /\ pc' = "static_lib"
    /\ UNCHANGED <<env, tree, out_path, assimp, minizip, include_paths, walk_i,
                   clang_args, generated, bindings_file>>

\* where the WalkDir loop stands after `yielded` entries
WalkPc(yielded) == IF yielded < Len(tree) THEN "walk" ELSE "manifest"

\* the static-link directive with the debug postfix
StaticLib ==
    /\ pc = "static_lib"
    /\ log' = Append(log, Println(50, "cargo:rustc-link-lib=static=assimp"
                \o debug_postfix(UnwrapOrDefault(env.OPT_LEVEL),
                                 UnwrapOrDefault(env.PROFILE))))
    /\ pc' = WalkPc(0)
    /\ UNCHANGED <<env, tree, out_path, assimp, minizip, include_paths, walk_i,
                   clang_args, generated, bindings_file>>

\* what one iteration of the loop prints for an entry
TriggerLine(dirent) ==
    IF IsTrigger(dirent.name)
    THEN <<Println(58, "cargo:rerun-if-changed=" \o PathText(EntryPath(dirent)))>>
    ELSE <<>>

\* one iteration of the WalkDir loop: the iterator yields the next entry or
\* an error, which dirent.unwrap() turns into a panic
WalkStep ==
    /\ pc = "walk"
    /\ \E yields_ok \in BOOLEAN :
        IF yields_ok
        THEN /\ walk_i' = walk_i + 1
             /\ log' = log \o TriggerLine(tree[walk_i + 1])
             /\ pc' = WalkPc(walk_i + 1)
        ELSE /\ UNCHANGED <<walk_i, log>>
             /\ Abort
    /\ UNCHANGED <<env, tree, out_path, assimp, minizip, include_paths,
                   clang_args, generated, bindings_file>>

\* env::var_os("CARGO_MANIFEST_DIR").unwrap() and the returned vec!
ManifestIncludes ==
    /\ pc = "manifest"
    /\ LET inc == IF IsSome(env.CARGO_MANIFEST_DIR)
                  THEN BundledIncludes(Get(env.CARGO_MANIFEST_DIR), Get(out_path))
                  ELSE None
       IN IF IsSome(inc)
          THEN include_paths' = inc /\ pc' = "probe_minizip"
          ELSE include_paths' = include_paths /\ Abort
    /\ UNCHANGED <<env, tree, out_path, assimp, minizip, walk_i, log,
                   clang_args, generated, bindings_file>>

-----------------------------------------------------------------------------
(* discover_library: the auxiliary library and the C++ runtime *)

\* a probe of minizip that is unwrapped: its failure is a panic
AfterMinizipRequired(result) == IF IsSome(result) THEN "minizip_found" ELSE "aborted"

\* the branch of `if let Ok(minizip) = ...`, which has no else
AfterMinizip(result) == IF IsSome(result) THEN "minizip_found" ELSE "stdlib"

\* pkg_config::probe_library("minizip")
ProbeMinizip ==
    /\ pc = "probe_minizip"
    /\ \E result \in MinizipResults :
        /\ minizip' = Some(result)
        /\ pc' = AfterMinizip(result)
    /\ log' = Append(log, Call("pkg_config", 89, "minizip"))
    /\ UNCHANGED <<env, tree, out_path, assimp, include_paths, walk_i,
                   clang_args, generated, bindings_file>>

\* the two loops over minizip.link_paths and minizip.libs
EmitMinizip ==
    /\ pc = "minizip_found"
    /\ LET d == LibraryDirectives(Get(Get(minizip)), 91, 94)
       IN /\ log' = log \o d.events
          /\ IF d.ok THEN pc' = "stdlib" ELSE Abort
    /\ UNCHANGED <<env, tree, out_path, assimp, minizip, include_paths, walk_i,
                   clang_args, generated, bindings_file>>

\* env::var("TARGET").unwrap_or_default() in place of the unwrap
ReadTargetOrDefault(e) == IF IsSome(e.TARGET) THEN e.TARGET ELSE Some(<<>>)

\* env::var("TARGET"), before the unwrap
ReadTarget(e) == e.TARGET

\* env::var("TARGET").unwrap() and the directive for the C++ runtime;
\* discover_library then returns include_paths to main
StdLib ==
    /\ pc = "stdlib"
    /\ LET target == ReadTarget(env)
       IN IF IsSome(target)
          THEN log' = log \o StdLibDirective(Get(target)) /\ pc' = "bindgen"
          ELSE log' = log /\ Abort
    /\ UNCHANGED <<env, tree, out_path, assimp, minizip, include_paths, walk_i,
                   clang_args, generated, bindings_file>>

-----------------------------------------------------------------------------
(* generate_bindings and the end of main *)

\* the builder: the wrapper.h trigger and one -I per include path
ConfigureBindgen ==
    /\ pc = "bindgen"
    /\ log' = Append(log, Println(109, "cargo:rerun-if-changed=wrapper.h"))
    /\ clang_args' = ClangArgs(Get(include_paths))
    /\ pc' = "generate"
    /\ UNCHANGED <<env, tree, out_path, assimp, minizip, include_paths, walk_i,
                   generated, bindings_file>>

\* a generate() whose error is dropped
AfterGenerateIgnoreError(parsed) == "write"

\* .expect("Unable to generate bindings")
AfterGenerate(parsed) == IF parsed THEN "write" ELSE "aborted"

\* bindings.generate(): the header parses or it does not
Generate ==
    /\ pc = "generate"
    /\ log' = Append(log, Call("bindgen", 127, "wrapper.h"))
    /\ \E parsed \in BOOLEAN :
        /\ generated' = Some(parsed)
        /\ pc' = AfterGenerate(parsed)
    /\ UNCHANGED <<env, tree, out_path, assimp, minizip, include_paths, walk_i,
                   clang_args, bindings_file>>

\* out_path.join("bindings.rs")
BindingsPath(out) == Join(out, "bindings.rs")

\* bindings.write_to_file(..).expect("Couldn't write bindings")
WriteBindings ==
    /\ pc = "write"
    /\ log' = Append(log, Call("write", 130, Display(BindingsPath(Get(out_path)))))
    /\ \E written \in BOOLEAN :
        IF written
        THEN bindings_file' = Some(BindingsPath(Get(out_path))) /\ pc' = "final"
        ELSE bindings_file' = bindings_file /\ Abort
    /\ UNCHANGED <<env, tree, out_path, assimp, minizip, include_paths, walk_i,
                   clang_args, generated>>

\* the last println! of main
FinalTrigger ==
    /\ pc = "final"
    /\ log' = Append(log, Println(138, "cargo:rerun-if-changed=build.rs"))
    /\ pc' = "done"
    /\ UNCHANGED <<env, tree, out_path, assimp, minizip, include_paths, walk_i,
                   clang_args, generated, bindings_file>>

-----------------------------------------------------------------------------

Next ==
    \/ ReadOutDir
    \/ ProbeAssimp
    \/ EmitAssimp
    \/ CollectIncludes
    \/ CmakeBuild
    \/ LinkSearch
    \/ StaticLib
    \/ WalkStep
    \/ ManifestIncludes
    \/ ProbeMinizip
    \/ EmitMinizip
    \/ StdLib
    \/ ConfigureBindgen
    \/ Generate
    \/ WriteBindings
    \/ FinalTrigger

Spec == Init /\ [][Next]_vars

\* the script is one thread that runs every blocking call to its end
FairSpec == Spec /\ WF_vars(Next)

Terminated == pc \in {"done", "aborted"}

-----------------------------------------------------------------------------
(* What the claims speak of *)

ProbeOk == IsSome(assimp) /\ IsSome(Get(assimp))
ProbeFailed == IsSome(assimp) /\ ~IsSome(Get(assimp))
CmakeCalls == Len(Calls(log, "cmake"))

\* positions after the loop over the bundled tree
PastWalk ==
    {"manifest", "probe_minizip", "minizip_found", "stdlib", "bindgen",
     "generate", "write", "final", "done"}
\* positions after primary resolution
PastPrimary == PastWalk \ {"manifest"}
\* positions after the directive for the C++ runtime
PastStdLib == {"bindgen", "generate", "write", "final", "done"}

\* the directives printed for the C++ runtime
StdLibLines == Texts(SelectSeq(log, LAMBDA e : e.ev = "print" /\ e.site \in {101, 103}))

-----------------------------------------------------------------------------
\* C1: the primary library is resolved by exactly one of system discovery
\* and local compilation: after a successful probe the build-system wrapper
\* is never invoked, after a failed probe it is invoked (once the branch has
\* taken its first step), and a completed run has exactly one of the two.
C1_DiscoveryXorCompile ==
    /\ ProbeOk => CmakeCalls = 0
    /\ (ProbeFailed /\ pc # "cmake") => CmakeCalls = 1
    /\ ~IsSome(assimp) => CmakeCalls = 0
    /\ pc = "done" => (ProbeOk /\ CmakeCalls = 0) \/ (ProbeFailed /\ CmakeCalls = 1)

\* a completed run of the local-compilation branch
C1_Witness == pc = "done" /\ ProbeFailed /\ CmakeCalls = 1

\* C2: the static library name carries the suffix "" for OPT_LEVEL in
\* 1, 2, 3, s, z whatever the PROFILE, "d" for OPT_LEVEL 0 or PROFILE debug,
\* "" otherwise (an unset variable reads as ""); it is one of "" and "d".
C2_DebugSuffix ==
    LET opt == IF IsSome(env.OPT_LEVEL) THEN Get(env.OPT_LEVEL) ELSE ""
        profile == IF IsSome(env.PROFILE) THEN Get(env.PROFILE) ELSE ""
        suffix == IF opt = "1" \/ opt = "2" \/ opt = "3" \/ opt = "s" \/ opt = "z"
                  THEN ""
                  ELSE IF opt = "0" \/ profile = "debug" THEN "d" ELSE ""
        lines == Texts(AtSite(log, 50))
    IN /\ Len(lines) <= 1
       /\ (ProbeFailed /\ pc \in {"walk"} \cup PastWalk) => Len(lines) = 1
       /\ Len(lines) = 1 =>
            /\ lines[1] = "cargo:rustc-link-lib=static=assimp" \o suffix
            /\ lines[1] \in {"cargo:rustc-link-lib=static=assimp",
                             "cargo:rustc-link-lib=static=assimpd"}

\* the directive is out with OPT_LEVEL unset and PROFILE debug
C2_Witness ==
    /\ env.OPT_LEVEL = None
    /\ env.PROFILE = Some("debug")
    /\ Texts(AtSite(log, 50)) = <<"cargo:rustc-link-lib=static=assimpd">>

\* C3 as stated: a target containing "gnu" gets exactly stdc++, one
\* containing "apple" gets exactly c++, one containing neither gets nothing,
\* on both branches, and at most one such directive is printed.
C3_AsStated ==
    pc \in PastStdLib =>
        LET target == Get(env.TARGET)
        IN /\ Contains(target, GNU) => StdLibLines = <<"cargo:rustc-link-lib=stdc++">>
           /\ Contains(target, APPLE) => StdLibLines = <<"cargo:rustc-link-lib=c++">>
           /\ (~Contains(target, GNU) /\ ~Contains(target, APPLE)) => StdLibLines = <<>>
           /\ Len(StdLibLines) <= 1

\* C3 amended: "gnu" wins over "apple": a target containing "gnu" gets
\* exactly stdc++, one containing "apple" and not "gnu" gets exactly c++, one
\* containing neither gets nothing; nothing is printed for the C++ runtime
\* before that step, and at most one directive is.
C3_StdLibDirective ==
    /\ Len(StdLibLines) <= 1
    /\ pc \notin PastStdLib \cup {"aborted"} => StdLibLines = <<>>
    /\ pc \in PastStdLib =>
        LET target == Get(env.TARGET)
        IN /\ Contains(target, GNU) => StdLibLines = <<"cargo:rustc-link-lib=stdc++">>
           /\ (Contains(target, APPLE) /\ ~Contains(target, GNU)) =>
                StdLibLines = <<"cargo:rustc-link-lib=c++">>
           /\ (~Contains(target, GNU) /\ ~Contains(target, APPLE)) => StdLibLines = <<>>

\* a completed run for a target that holds both words
C3_Witness ==
    /\ pc = "done"
    /\ Contains(Get(env.TARGET), GNU) /\ Contains(Get(env.TARGET), APPLE)
    /\ StdLibLines = <<"cargo:rustc-link-lib=stdc++">>

\* C4: after a failed probe of the primary library the include paths that
\* discover_library returns and generate_bindings receives are exactly
\* <manifest dir>/assimp/include and <output dir>/include: no path a probe
\* reported is among them.
C4_BundledIncludePaths ==
    LET bundled == PathText(Get(env.CARGO_MANIFEST_DIR)) \o "/assimp/include"
        generated_dir == PathText(Get(env.OUT_DIR)) \o "/include"
    IN ProbeFailed =>
        /\ pc \in PastPrimary => IsSome(include_paths)
        /\ IsSome(include_paths) =>
            /\ Range(Get(include_paths)) = {bundled, generated_dir}
            /\ \A r \in AssimpResults \cup MinizipResults : IsSome(r) =>
                 \A i \in 1..Len(Get(r).include_paths) :
                    PathText(Get(r).include_paths[i]) \notin Range(Get(include_paths))
        /\ pc \in {"generate", "write", "final", "done"} =>
            clang_args = <<"-I", bundled, "-I", generated_dir>>

\* bindgen has its arguments after a failed primary and a successful
\* auxiliary probe
C4_Witness ==
    /\ ProbeFailed
    /\ IsSome(minizip) /\ IsSome(Get(minizip))
    /\ pc = "done"
    /\ Len(clang_args) = 4

-----------------------------------------------------------------------------
\* C5 as stated: when OUT_DIR, TARGET or CARGO_MANIFEST_DIR is missing the
\* run never completes, and where it has aborted nothing has been printed,
\* the build-system wrapper has not been invoked and no bindings file has
\* been written.
C5_AsStated ==
    (env.OUT_DIR = None \/ env.TARGET = None \/ env.CARGO_MANIFEST_DIR = None) =>
        /\ pc # "done"
        /\ pc = "aborted" =>
            /\ Printed(log) = <<>>
            /\ CmakeCalls = 0
            /\ bindings_file = None

\* C5 amended: each variable is fatal where it is read.  Without OUT_DIR
\* the run stops at its first step with nothing printed and nothing
\* called.  Without TARGET the run never gets past the C++ runtime step,
\* and without CARGO_MANIFEST_DIR a run whose primary probe failed never
\* gets past compile_bundled; in both cases binding generation is never
\* reached and no bindings file is written, but the primary library's
\* directives may be out and the wrapper may have run.
C5_EnvFailure ==
    /\ env.OUT_DIR = None =>
        /\ pc \in {"main", "aborted"}
        /\ log = <<>>
        /\ bindings_file = None
    /\ env.TARGET = None =>
        /\ pc \notin PastStdLib
        /\ AtSite(log, 109) = <<>> /\ AtSite(log, 138) = <<>>
        /\ Calls(log, "bindgen") = <<>>
        /\ bindings_file = None
    /\ (env.CARGO_MANIFEST_DIR = None /\ ProbeFailed) =>
        /\ pc \notin PastPrimary
        /\ include_paths = None
        /\ Calls(log, "bindgen") = <<>>
        /\ bindings_file = None

\* the run has aborted for want of TARGET with directives already printed
C5_Witness ==
    /\ env.TARGET = None
    /\ pc = "aborted"
    /\ IsSome(minizip)
    /\ Printed(log) # <<>>

\* C6: binding generation fails fatally.  A header that does not parse
\* aborts the run with no write attempted and no file written; a write that
\* fails aborts it too; the build.rs trigger is printed in completed runs
\* only; and a run completes only with the bindings written to
\* <OUT_DIR>/bindings.rs.
C6_BindgenFatal ==
    /\ generated = Some(FALSE) =>
        /\ pc = "aborted"
        /\ Calls(log, "write") = <<>>
        /\ bindings_file = None
    /\ (Calls(log, "write") # <<>> /\ bindings_file = None) => pc = "aborted"
    /\ AtSite(log, 138) # <<>> => pc = "done"
    /\ pc \in {"final", "done"} =>
        /\ generated = Some(TRUE)
        /\ bindings_file = Some(Get(env.OUT_DIR) \o <<"bindings.rs">>)

\* the header did not parse
C6_Witness == generated = Some(FALSE) /\ pc = "aborted"

HasExtension(e) ==
    \E ext \in {<<".", "h">>, <<".", "c", "p", "p">>, <<".", "i", "n", "l">>} :
        EndsWith(e.name, ext)

\* the rebuild triggers of the entries among the first n of the tree whose
\* name has one of the endings (files only, or directories too), in the
\* order of the walk
RECURSIVE TriggersOf(_, _)
TriggersOf(n, files_only) ==
    IF n = 0 THEN <<>>
    ELSE TriggersOf(n - 1, files_only) \o
         (IF HasExtension(tree[n]) /\ (files_only => ~tree[n].is_dir)
          THEN <<"cargo:rerun-if-changed=" \o PathText(EntryPath(tree[n]))>>
          ELSE <<>>)

\* C7 as stated: after the loop the registered paths are exactly the files
\* under the tree whose name ends in .h, .cpp or .inl, each once; no
\* directory is registered; no entry was skipped.
C7_AsStated ==
    (ProbeFailed /\ pc \in PastWalk) =>
        /\ Texts(AtSite(log, 58)) = TriggersOf(Len(tree), TRUE)
        /\ walk_i = Len(tree)

\* C7 amended: the registered paths are exactly the entries, files and
\* directories alike, whose name ends in .h, .cpp or .inl: at every moment
\* one line for each such entry among those yielded so far, in order, and
\* none for any other; the loop is left only when every entry has been
\* yielded, an error aborts instead.
C7_RebuildTriggers ==
    /\ Texts(AtSite(log, 58)) = TriggersOf(walk_i, FALSE)
    /\ (ProbeFailed /\ pc \in PastWalk) => walk_i = Len(tree)
    /\ ~ProbeFailed => walk_i = 0

\* a completed walk over a tree with a directory, two files that count and
\* one that does not
C7_Witness ==
    /\ ProbeFailed /\ pc = "done"
    /\ Len(tree) = 4
    /\ Len(AtSite(log, 58)) = 3

\* C8: after a successful probe one directive is printed per reported link
\* directory and one per reported library name, and the include paths given
\* to bindgen are the reported include directories, in the reported order
\* and nothing else.
C8_SystemBranch ==
    ProbeOk =>
        LET lib == Get(Get(assimp))
            inc == [i \in 1..Len(lib.include_paths) |-> PathText(lib.include_paths[i])]
        IN /\ pc \in {"assimp_includes"} \cup PastPrimary =>
                /\ Texts(AtSite(log, 74)) =
                     [i \in 1..Len(lib.link_paths) |->
                        "cargo:rustc-link-path=" \o PathText(lib.link_paths[i])]
                /\ Texts(AtSite(log, 77)) =
                     [i \in 1..Len(lib.libs) |-> "cargo:rustc-link-lib=" \o lib.libs[i]]
           /\ pc \in PastPrimary => include_paths = Some(inc)
           /\ pc \in {"generate", "write", "final", "done"} =>
                clang_args = [i \in 1..(2 * Len(inc)) |->
                                IF i % 2 = 1 THEN "-I" ELSE inc[i \div 2]]

\* bindgen ran on two reported include directories
C8_Witness ==
    /\ ProbeOk /\ pc = "done"
    /\ Len(Get(Get(assimp)).include_paths) = 2
    /\ Len(Get(Get(assimp)).link_paths) = 1
    /\ Len(clang_args) = 4

IsPrefix(a, b) == Len(a) <= Len(b) /\ SubSeq(b, 1, Len(a)) = a

\* what a step of the auxiliary resolution may do
C9_Step ==
    /\ pc = "probe_minizip" =>
        /\ include_paths' = include_paths
        /\ Printed(log') = Printed(log)
        /\ pc' = IF minizip' = Some(None) THEN "stdlib" ELSE "minizip_found"
    /\ pc = "minizip_found" =>
        /\ include_paths' = include_paths
        /\ IsPrefix(log, log')
        /\ pc' # "aborted" =>
            LET lib == Get(Get(minizip))
            IN /\ pc' = "stdlib"
               /\ Texts(SubSeq(log', Len(log) + 1, Len(log'))) =
                    [i \in 1..Len(lib.link_paths) |->
                        "cargo:rustc-link-path=" \o PathText(lib.link_paths[i])]
                    \o [i \in 1..Len(lib.libs) |-> "cargo:rustc-link-lib=" \o lib.libs[i]]
    /\ (pc = "stdlib" /\ env.TARGET # None) =>
        /\ pc' = "bindgen"
        /\ include_paths' = include_paths

\* C9: the auxiliary library is optional.  A failed probe does not abort:
\* the run goes on to the C++ runtime step (and from there, TARGET being
\* set, to binding generation) with the include paths and the printed
\* directives unchanged, and no directive of that library is ever printed;
\* a successful probe prints one directive per link directory and name,
\* after those already printed, and leaves the include paths unchanged.
C9_AuxiliaryOptional ==
    /\ [](minizip = Some(None) => AtSite(log, 91) = <<>> /\ AtSite(log, 94) = <<>>)
    /\ [][C9_Step]_vars

\* a run completed although the auxiliary probe failed
C9_Witness == minizip = Some(None) /\ pc = "done" /\ Printed(log) # <<>>

\* the place of a source line in the one order the steps can take
Stage(site) ==
    CASE site = 72 -> 1
      [] site \in {33, 74} -> 2
      [] site \in {36, 77} -> 3
      [] site = 50 -> 4
      [] site = 58 -> 5
      [] site = 89 -> 6
      [] site = 91 -> 7
      [] site = 94 -> 8
      [] site \in {101, 103} -> 9
      [] site = 109 -> 10
      [] site = 127 -> 11
      [] site = 130 -> 12
      [] site = 138 -> 13

\* the lines inside loops, which may repeat
LoopSites == {58, 74, 77, 91, 94}

C10_Order ==
    /\ \A i \in 1..(Len(log) - 1) :
        \/ Stage(log[i].site) < Stage(log[i + 1].site)
        \/ log[i].site = log[i + 1].site /\ log[i].site \in LoopSites
    /\ log # <<>> => log[1].site = 72
    /\ (\E i \in 1..Len(log) : log[i].site \in {33, 36, 50, 58}) => ProbeFailed
    /\ (\E i \in 1..Len(log) : log[i].site \in {74, 77}) => ProbeOk
    /\ (\E i \in 1..Len(log) : Stage(log[i].site) >= 6) => IsSome(include_paths)
    /\ (ProbeFailed /\ IsSome(include_paths)) =>
        /\ CmakeCalls = 1
        /\ Len(AtSite(log, 50)) = 1
    /\ pc = "done" =>
        \A site \in {72, 89, 109, 127, 130, 138} :
            \E i \in 1..Len(log) : log[i].site = site

\* C10: a run is one straight line.  Each probe, the wrapper and the
\* generator are invoked at most once, in the order: primary probe; on its
\* failure the wrapper, the static-link directive and the rebuild triggers;
\* auxiliary probe; C++ runtime directive; binding generation; build.rs
\* trigger.  Nothing from the auxiliary probe on happens before the include
\* paths exist, and every run ends, completed or aborted.
C10_StraightLine == []C10_Order /\ <>Terminated

\* a completed run through the local build, with entries walked
C10_Witness ==
    /\ pc = "done" /\ ProbeFailed
    /\ Len(AtSite(log, 58)) >= 2
    /\ Len(AtSite(log, 91)) >= 1

====
